---- MODULE Spec2Model ----
(***************************************************************************)
(* Model of git_auto_sync.py: the file-change handler with its debounce    *)
(* ledger (LpzFileHandler), the application object (GitAutoSyncApp) with   *)
(* its active_dialog slot, observer, tray icon and manual git actions, the *)
(* commit dialog (CommitDialog) and the git worker threads.                *)
(*                                                                         *)
(* Threads of the program: the Tk main loop (all GUI callbacks and every   *)
(* root.after callback), one watchdog observer thread per Observer, the    *)
(* pystray thread (tray menu callbacks) and one daemon worker thread per   *)
(* git sequence.  Every action below is one callback, or one step of a     *)
(* worker thread between two points where other threads can interleave.    *)
(***************************************************************************)
EXTENDS Integers, Sequences, FiniteSets, TLC

\* ------------------------------------------------------------------ bounds
MaxTime == 3        \* the clock runs over 0..MaxTime (seconds)
MaxQueue == 2       \* root.after(100, show_commit_dialog) callbacks pending at once
MaxDialogs == 2     \* CommitDialog windows in existence at once
MaxThreads == 2     \* worker threads alive at once
MaxObservers == 2   \* Observer/LpzFileHandler pairs ever constructed

\* ------------------------------------------------------- program constants
Cooldown == 3       \* on_modified: "now - last_event_time[path] < 3"

\* --------------------------------------------------------------- strings
\* Strings the code inspects are sequences of characters.
LpzSuffix == <<".", "l", "p", "z">>

\* str.endswith(suffix)
EndsWith(s, suffix) ==
    /\ Len(s) >= Len(suffix)
    /\ SubSeq(s, Len(s) - Len(suffix) + 1, Len(s)) = suffix

RECURSIVE LStrip(_)
LStrip(s) == IF s # <<>> /\ Head(s) = " " THEN LStrip(Tail(s)) ELSE s

RECURSIVE RStrip(_)
RStrip(s) ==
    IF s # <<>> /\ s[Len(s)] = " " THEN RStrip(SubSeq(s, 1, Len(s) - 1)) ELSE s

\* A strip() that removes nothing.
StripNothing(s) == s

\* str.strip()
Strip(s) == RStrip(LStrip(s))

\* ---------------------------------------------------------------- inputs
\* Paths the filesystem observer reports (event.src_path).
LpzA == <<"a">> \o LpzSuffix
LpzB == <<"b">> \o LpzSuffix
TxtA == <<"a", ".", "t", "x", "t">>
NoDot == <<"l", "p", "z">>
LpzBak == LpzA \o <<"~">>
EventPaths == { LpzA, TxtA }
DebouncePaths == { LpzA, LpzB, TxtA, NoDot, LpzBak }

\* Contents of the commit-message text widget when the operator approves.
Messages == { <<>>, <<" ">>, <<" ", "m", " ">> }

\* Contents of the configuration form (watch path, repository path, remote,
\* branch) when Start Monitoring is clicked.
Forms ==
    { [watch |-> <<>>,         repo |-> <<"r">>,      remote |-> "origin",   branch |-> "main"],
      [watch |-> <<" ">>,      repo |-> <<"r">>,      remote |-> "origin",   branch |-> "main"],
      [watch |-> <<"w">>,      repo |-> <<>>,         remote |-> "origin",   branch |-> "main"],
      [watch |-> <<"w", " ">>, repo |-> <<" ", "r">>, remote |-> "origin",   branch |-> "main"],
      [watch |-> <<"w">>,      repo |-> <<"q">>,      remote |-> "upstream", branch |-> "dev"] }

\* The forms that name one and the same repository, remote and branch.
OneTargetForms == { form \in Forms : form.remote = "origin" }

\* What os.path.exists answers for the watch path, the repository path and
\* the repository's .git entry.
Filesystems ==
    { [watch |-> TRUE,  repo |-> TRUE,  git |-> TRUE],
      [watch |-> FALSE, repo |-> TRUE,  git |-> TRUE],
      [watch |-> TRUE,  repo |-> FALSE, git |-> FALSE],
      [watch |-> TRUE,  repo |-> TRUE,  git |-> FALSE] }

\* How one external git command ends: exit status 0, a nonzero exit status,
\* subprocess.run raising something else (the executable or the directory is
\* missing), or the 30 s timeout, which only pull and fetch are run with.  A
\* command run with no timeout may also never return ("hangs").
SequenceRcs == { "ok", "nonzero", "raised", "hangs" }
SingleRcs == { "ok", "nonzero", "raised", "timeout" }

\* The ends that come from git itself: the command ran.
GitRcs == (SequenceRcs \cup SingleRcs) \ { "raised" }

\* ----------------------------------------------------------------- state
VARIABLES
    running,        \* the Tk main loop is alive (until quit_app completes)
    now,            \* time.time(), in whole seconds
    config,         \* GitAutoSyncApp.config (a dict: a function on its keys)
    monitoring,     \* GitAutoSyncApp.monitoring
    observer,       \* GitAutoSyncApp.observer: 0 (None), or the number of the
                    \* Observer it holds, counting the Observers constructed
    handler,        \* that Observer's thread state ("created": never started)
                    \* and its LpzFileHandler's last_event_time
    retired,        \* the same for the Observers the application held before
                    \* and has replaced, by number
    afterQueue,     \* pending root.after(100, show_commit_dialog(fp)) callbacks
    active_dialog,  \* GitAutoSyncApp.active_dialog: 0 (None) or a slot of dialogs
    dialogs,        \* the CommitDialog windows, by slot
    threads,        \* the worker threads, by slot
    modal,          \* stack of open message boxes, innermost last: t for the
                    \* result box of thread t, 0 - d for the error box of an
                    \* approval of dialog d with no message
    root_visible,   \* the main window is viewable (not withdrawn to the tray)
    tray_icon,      \* GitAutoSyncApp.tray_icon: 0 (None), or the number of the
                    \* pystray.Icon it holds, counting the Icons created
    accepted        \* history: the signals the present debouncer let through

vars == << running, now, config, monitoring, observer, handler, retired,
           afterQueue,
           active_dialog, dialogs, threads, modal, root_visible, tray_icon,
           accepted >>

\* A Python dict with no keys.
EmptyDict == [k \in {} |-> 0]

\* dict[k] = v
DictPut(d, k, v) == [x \in DOMAIN d \cup {k} |-> IF x = k THEN v ELSE d[x]]

\* dict.get(key, default)
DictGet(d, k, default) == IF k \in DOMAIN d THEN d[k] ELSE default

\* A slot with no window in it / a window as CommitDialog.__init__ leaves it.
\* ignored: a change callback found this dialog open and was dropped.
NoDialog == [state |-> "free", file |-> <<>>, disabled |-> FALSE, ignored |-> FALSE]

NewDialog(file_path) ==
    [state |-> "open", file |-> file_path, disabled |-> FALSE, ignored |-> FALSE]

\* A slot with no thread in it / a thread as threading.Thread(...).start()
\* leaves it.  dlg: the slot of the dialog whose push_changes started it (0
\* for a tray action); gone: that dialog's window has been destroyed since;
\* success: what run_git_commands returned (for pull and fetch, returncode
\* == 0); report: the outcome show_result's message box shows, or the one
\* the thread of a tray action posts for show_tray_message.
NoThread ==
    [kind |-> "none", dlg |-> 0, gone |-> FALSE, pc |-> "idle",
     issued |-> <<>>, rcs |-> <<>>, success |-> FALSE, report |-> "none"]

NewThread(kind, d) ==
    [kind |-> kind, dlg |-> d, gone |-> FALSE, pc |-> "run",
     issued |-> <<>>, rcs |-> <<>>, success |-> FALSE, report |-> "none"]

\* GitAutoSyncApp.__init__ (no configuration file yet)
\* No Observer: nothing constructed yet under this number.
NoHandler == [state |-> "none", ledger |-> EmptyDict]

Init ==
    /\ running = TRUE
    /\ now = 0
    /\ config = EmptyDict
    /\ monitoring = FALSE
    /\ observer = 0
    /\ handler = NoHandler
    /\ retired = [i \in 1..MaxObservers |-> NoHandler]
    /\ afterQueue = <<>>
    /\ active_dialog = 0
    /\ dialogs = [d \in 1..MaxDialogs |-> NoDialog]
    /\ threads = [t \in 1..MaxThreads |-> NoThread]
    /\ modal = <<>>
    /\ root_visible = TRUE
    /\ tray_icon = 0
    /\ accepted = {}

\* The clock advances.
Tick ==
    /\ running
    /\ now < MaxTime
    /\ now' = now + 1
    /\ UNCHANGED << running, config, monitoring, observer, handler, retired,
                    afterQueue,
                    active_dialog, dialogs, threads, modal, root_visible,
                    tray_icon, accepted >>

\* ------------------------------------------------------- LpzFileHandler
\* The debounce test with "<=" for "<".
DebounceSuppressedOffByOne(ledger, path, t) ==
    /\ path \in DOMAIN ledger
    /\ t - ledger[path] <= Cooldown

\* on_modified, the debounce test: the path has an entry and the event is
\* less than 3 seconds after it.
DebounceSuppressed(ledger, path, t) ==
    /\ path \in DOMAIN ledger
    /\ t - ledger[path] < Cooldown

\* A filter that lets directory events through.
IsLpzEventOfAnyKind(path, is_directory) == EndsWith(path, LpzSuffix)

\* on_modified, the filter in front of the debounce test.
IsLpzFileEvent(path, is_directory) ==
    /\ ~is_directory
    /\ EndsWith(path, LpzSuffix)

\* The ledger keeping only the newest entry.
LedgerAfterAcceptForgets(ledger, path, t) == [x \in {path} |-> t]

\* A ledger that is written only when no dialog is open.
LedgerAfterAcceptWhenIdle(ledger, path, t) ==
    IF active_dialog # 0 /\ dialogs[active_dialog].state # "free"
    THEN ledger
    ELSE DictPut(ledger, path, t)

\* on_modified, line 53: the ledger once the event has passed.
LedgerAfterAccept(ledger, path, t) == DictPut(ledger, path, t)

\* Observer number i with the LpzFileHandler scheduled on it (lines 215-217):
\* the one the application holds, or one it has replaced.
HandlerOf(i) == IF i = observer THEN handler ELSE retired[i]

\* LpzFileHandler.on_modified, run by the thread of Observer i while that
\* Observer is running.
on_modified(i, path, is_directory) ==
    /\ running
    /\ HandlerOf(i).state = "running"
    /\ Len(afterQueue) < MaxQueue
    /\ IF IsLpzFileEvent(path, is_directory)
          /\ ~DebounceSuppressed(HandlerOf(i).ledger, path, now)
       THEN /\ IF i = observer
               THEN /\ handler' = [handler EXCEPT
                           !.ledger = LedgerAfterAccept(handler.ledger, path, now)]
                    /\ UNCHANGED retired
               ELSE /\ retired' = [retired EXCEPT
                           ![i].ledger = LedgerAfterAccept(@, path, now)]
                    /\ UNCHANGED handler
            /\ afterQueue' = Append(afterQueue, path)
            /\ accepted' = accepted \cup
                   {[h |-> i, path |-> path, at |-> now]}
       ELSE UNCHANGED << handler, retired, afterQueue, accepted >>
    /\ UNCHANGED << running, now, config, monitoring, observer, active_dialog,
                    dialogs, threads, modal, root_visible, tray_icon >>

\* ------------------------------------------------------- GitAutoSyncApp
\* A validation that does not look for the repository's .git entry.
StartValidationNoMarker(watch_path, repo_path, watchExists, repoExists, gitExists) ==
    IF watch_path = <<>> \/ repo_path = <<>> THEN "error_paths_missing"
    ELSE IF ~watchExists THEN "error_watch_path"
    ELSE IF ~repoExists THEN "error_repo_path"
    ELSE ""

\* start_monitoring, lines 185-199: the message box of the first failing test,
\* "" when all four pass.
StartValidation(watch_path, repo_path, watchExists, repoExists, gitExists) ==
    IF watch_path = <<>> \/ repo_path = <<>> THEN "error_paths_missing"
    ELSE IF ~watchExists THEN "error_watch_path"
    ELSE IF ~repoExists THEN "error_repo_path"
    ELSE IF ~gitExists THEN "error_not_a_repository"
    ELSE ""

\* An Observer that is replaced and goes on as it was.
ObserverStopOmitted(h) == h

\* start_monitoring, lines 212-213: observer.stop() ends the thread of the
\* Observer held so far and unschedules its handler, which is not called again.
ObserverStop(h) == [state |-> "stopped", ledger |-> EmptyDict]

\* start_monitoring, the Start Monitoring button.  The form contents and the
\* answers of os.path.exists are inputs; startRaises is Observer.schedule or
\* Observer.start raising.  The Observer held before is stopped, and the new
\* one comes with a new LpzFileHandler.
start_monitoring(form, fs, startRaises) ==
    LET watch_path == Strip(form.watch)
        repo_path == Strip(form.repo)
        verdict == StartValidation(watch_path, repo_path,
                                   fs.watch, fs.repo, fs.git)
    IN
    /\ running
    /\ root_visible
    /\ modal = <<>>
    /\ IF verdict # ""
       THEN UNCHANGED << config, monitoring, observer, handler, retired,
                         accepted >>
       ELSE /\ observer < MaxObservers
            /\ config' = DictPut(DictPut(DictPut(DictPut(config,
                             "watch_path", watch_path),
                             "repo_path", repo_path),
                             "default_remote", form.remote),
                             "default_branch", form.branch)
            /\ retired' = IF observer = 0
                          THEN retired
                          ELSE [retired EXCEPT ![observer] = ObserverStop(handler)]
            /\ observer' = observer + 1
            /\ IF startRaises
               THEN /\ handler' = [state |-> "created", ledger |-> EmptyDict]
                    /\ UNCHANGED monitoring
               ELSE /\ handler' = [state |-> "running", ledger |-> EmptyDict]
                    /\ monitoring' = TRUE
            /\ accepted' = {}
    /\ UNCHANGED << running, now, afterQueue, active_dialog, dialogs, threads,
                    modal, root_visible, tray_icon >>

\* The Tk window of dialog slot d exists (winfo_exists).
DialogExists(d) ==
    /\ d \in 1..MaxDialogs
    /\ dialogs[d].state # "free"

\* show_commit_dialog without its test of active_dialog.
DialogAlreadyOpenNever == FALSE

\* A test that lets a callback through when the open dialog is for another file.
DialogAlreadyOpenForFile ==
    /\ active_dialog # 0
    /\ DialogExists(active_dialog)
    /\ afterQueue # <<>>
    /\ dialogs[active_dialog].file = Head(afterQueue)

\* show_commit_dialog, lines 230-237: a dialog is tracked and its window exists.
DialogAlreadyOpen ==
    /\ active_dialog # 0
    /\ DialogExists(active_dialog)

\* The slot a new window goes to.
FreeDialogSlot == CHOOSE d \in 1..MaxDialogs :
    /\ dialogs[d].state = "free"
    /\ \A e \in 1..MaxDialogs : dialogs[e].state = "free" => d <= e

\* show_commit_dialog(fp), the root.after callback on_modified scheduled.
\* ctorRaises, fallbackRaises: the CommitDialog constructor raising in the
\* first attempt and in the fallback attempt with no parent.
show_commit_dialog(ctorRaises, fallbackRaises) ==
    /\ running
    /\ afterQueue # <<>>
    /\ afterQueue' = Tail(afterQueue)
    /\ IF DialogAlreadyOpen
       THEN /\ dialogs' = [dialogs EXCEPT ![active_dialog].ignored = TRUE]
            /\ UNCHANGED active_dialog
       ELSE IF ctorRaises /\ fallbackRaises
       THEN /\ active_dialog' = 0
            /\ UNCHANGED dialogs
       ELSE /\ \E d \in 1..MaxDialogs : dialogs[d].state = "free"
            /\ dialogs' = [dialogs EXCEPT
                   ![FreeDialogSlot] = NewDialog(Head(afterQueue))]
            /\ active_dialog' = FreeDialogSlot
    /\ UNCHANGED << running, now, config, monitoring, observer, handler,
                    retired,
                    threads, modal, root_visible, tray_icon, accepted >>

\* A Minimize to Tray button that hides the window whatever the state.
MinimizeRefusedNever == FALSE

\* minimize_to_tray, lines 263-265: the warning, with nothing hidden.
MinimizeRefused == ~monitoring

\* minimize_to_tray, line 270: no Icon is held.
TrayIconMissing == tray_icon = 0

\* minimize_to_tray, the Minimize to Tray button (create_tray_icon included:
\* a new Icon, with its own thread, takes the place of whatever was held).
minimize_to_tray ==
    /\ running
    /\ root_visible
    /\ modal = <<>>
    /\ IF MinimizeRefused
       THEN UNCHANGED << root_visible, tray_icon >>
       ELSE /\ root_visible' = FALSE
            /\ tray_icon' = IF TrayIconMissing THEN tray_icon + 1 ELSE tray_icon
    /\ UNCHANGED << running, now, config, monitoring, observer, handler,
                    retired,
                    afterQueue, active_dialog, dialogs, threads, modal, accepted >>

\* show_main_window, the tray menu's Open Config.
show_main_window ==
    /\ running
    /\ tray_icon # 0
    /\ root_visible' = TRUE
    /\ UNCHANGED << running, now, config, monitoring, observer, handler,
                    retired,
                    afterQueue, active_dialog, dialogs, threads, modal,
                    tray_icon, accepted >>

\* --------------------------------------------------------- CommitDialog
\* The closures of dialog d's threads hold a window that is destroyed now.
Orphaned(ths, d) ==
    [t \in DOMAIN ths |->
        IF ths[t].kind = "auto" /\ ths[t].dlg = d
        THEN [ths[t] EXCEPT !.dlg = 0, !.gone = TRUE]
        ELSE ths[t]]

\* CommitDialog.close_dialog, line 653-654: the slot after dialog d closes.
SlotAfterClose(d) == IF active_dialog = d THEN 0 ELSE active_dialog

\* The buttons and key bindings of dialog d can be used: its window is shown
\* and no message box holds the grab.
DialogUsable(d) ==
    /\ d \in 1..MaxDialogs
    /\ dialogs[d].state = "open"
    /\ modal = <<>>

\* push_changes, lines 617-618: what approving does to the dialog's widgets.
DisableDialog(dlg) == [dlg EXCEPT !.disabled = TRUE]

\* push_changes: the widgets of dialog dlg let the operator approve.
ApproveEnabled(dlg) == TRUE

\* The slot a new thread goes to.
FreeThreadSlot == CHOOSE t \in 1..MaxThreads :
    /\ threads[t].kind = "none"
    /\ \A u \in 1..MaxThreads : threads[u].kind = "none" => t <= u

\* CommitDialog.push_changes: the Push Changes button or Ctrl+Enter of dialog
\* d, with `typed` in the text widget.  A disabled widget holds the message
\* of the approval that disabled it, which is not empty.  With no message
\* the handler shows its error box and returns when the box is dismissed.
push_changes(d, typed) ==
    /\ running
    /\ DialogUsable(d)
    /\ ApproveEnabled(dialogs[d])
    /\ dialogs[d].disabled => Strip(typed) # <<>>
    /\ IF Strip(typed) = <<>>
       THEN /\ modal' = Append(modal, 0 - d)
            /\ UNCHANGED << dialogs, threads >>
       ELSE /\ \E t \in 1..MaxThreads : threads[t].kind = "none"
            /\ dialogs' = [dialogs EXCEPT ![d] = DisableDialog(@)]
            /\ threads' = [threads EXCEPT ![FreeThreadSlot] = NewThread("auto", d)]
            /\ UNCHANGED modal
    /\ UNCHANGED << running, now, config, monitoring, observer, handler,
                    retired,
                    afterQueue, active_dialog, root_visible, tray_icon,
                    accepted >>

\* push_changes, line 608-609: the operator dismisses the error box and the
\* handler returns.
error_dismissed ==
    /\ running
    /\ modal # <<>>
    /\ modal[Len(modal)] < 0
    /\ modal' = SubSeq(modal, 1, Len(modal) - 1)
    /\ UNCHANGED << running, now, config, monitoring, observer, handler,
                    retired,
                    afterQueue, active_dialog, dialogs, threads, root_visible,
                    tray_icon, accepted >>

\* CommitDialog.cancel: the Cancel button, Escape or the window's close
\* button; close_dialog.
cancel(d) ==
    /\ running
    /\ DialogUsable(d)
    /\ active_dialog' = SlotAfterClose(d)
    /\ dialogs' = [dialogs EXCEPT ![d] = NoDialog]
    /\ threads' = Orphaned(threads, d)
    /\ UNCHANGED << running, now, config, monitoring, observer, handler,
                    retired,
                    afterQueue, modal, root_visible, tray_icon, accepted >>

\* ------------------------------------------------------- worker threads
\* The commands run_git_commands issues, in its order.
PushPlan == << "add", "commit", "push" >>

\* The commands a thread runs: the push sequence, or the one pull or fetch.
Plan(kind) == IF kind \in {"auto", "force"} THEN PushPlan ELSE << kind >>

\* The ends a command of this kind of thread can come to.
RcsOf(kind) == IF kind \in {"auto", "force"} THEN SequenceRcs ELSE SingleRcs

\* subprocess.run without check=True: a nonzero status goes unnoticed.
SequenceContinuesPastFailure(rc) == rc \in {"ok", "nonzero"}

\* run_git_commands: after a command that ended rc the next one is run.
\* check=True raises on a nonzero status, and both except clauses return False.
SequenceContinues(rc) == rc = "ok"

\* A run_git_commands that returns False whatever happened.
SequenceSuccessNever(kind, rcs) == FALSE

\* run_git_commands' return value: True past the last command, False from
\* either except clause.  For the one command of pull or fetch: returncode == 0.
SequenceSuccess(kind, rcs) ==
    /\ Len(rcs) = Len(Plan(kind))
    /\ \A i \in 1..Len(rcs) : rcs[i] = "ok"

\* A pull or fetch whose timeout is reported as any other failure.
TrayReportConflated(kind, success, rcs) ==
    IF kind = "force"
    THEN IF success THEN "success" ELSE "failed"
    ELSE IF rcs[1] = "ok" THEN "success"
    ELSE IF rcs[1] \in {"nonzero", "timeout"} THEN "failed"
    ELSE "error"

\* The message run_push, run_pull or run_fetch posts for show_tray_message.
TrayReport(kind, success, rcs) ==
    IF kind = "force"
    THEN IF success THEN "success" ELSE "failed"
    ELSE IF rcs[1] = "ok" THEN "success"
    ELSE IF rcs[1] = "nonzero" THEN "failed"
    ELSE IF rcs[1] = "timeout" THEN "timed_out"
    ELSE "error"

\* One subprocess.run of worker thread t, from its start to its end rc.  After
\* its last command the thread posts its result with root.after(0, ...); in a
\* command that never returns the thread stays for good ("hung").  The thread
\* of a tray action chooses the message of its report as it posts it.
git_command(t, rc) ==
    /\ running
    /\ threads[t].pc = "run"
    /\ rc \in RcsOf(threads[t].kind)
    /\ LET th == threads[t]
           cmd == Plan(th.kind)[Len(th.issued) + 1]
           more == /\ SequenceContinues(rc)
                   /\ Len(th.issued) + 1 < Len(Plan(th.kind))
       IN threads' = [threads EXCEPT ![t] =
              [th EXCEPT !.issued = Append(th.issued, cmd),
                         !.rcs = Append(th.rcs, rc),
                         !.pc = IF more THEN "run"
                                ELSE IF rc = "hangs" THEN "hung" ELSE "posted",
                         !.success = /\ ~more
                                     /\ SequenceSuccess(th.kind, Append(th.rcs, rc)),
                         !.report =
                             IF more \/ rc = "hangs" \/ th.kind = "auto"
                             THEN th.report
                             ELSE TrayReport(th.kind,
                                      SequenceSuccess(th.kind, Append(th.rcs, rc)),
                                      Append(th.rcs, rc))]]
    /\ UNCHANGED << running, now, config, monitoring, observer, handler,
                    retired,
                    afterQueue, active_dialog, dialogs, modal, root_visible,
                    tray_icon, accepted >>

\* CommitDialog.show_result up to its message box: the callback run_git posted.
\* dialog.withdraw() raises TclError when the window has been destroyed, and
\* the callback ends there.
show_result(t) ==
    /\ running
    /\ threads[t].kind = "auto"
    /\ threads[t].pc = "posted"
    /\ IF threads[t].gone
       THEN /\ threads' = [threads EXCEPT ![t] = NoThread]
            /\ UNCHANGED << dialogs, modal >>
       ELSE /\ dialogs' = [dialogs EXCEPT ![threads[t].dlg].state = "withdrawn"]
            /\ threads' = [threads EXCEPT
                   ![t].pc = "msgbox",
                   ![t].report = IF threads[t].success
                                 THEN "success" ELSE "failed"]
            /\ modal' = Append(modal, t)
    /\ UNCHANGED << running, now, config, monitoring, observer, handler,
                    retired,
                    afterQueue, active_dialog, root_visible, tray_icon, accepted >>

\* CommitDialog.show_result from the operator dismissing its message box:
\* close_dialog.  Nested message boxes return innermost first.
result_dismissed ==
    /\ running
    /\ modal # <<>>
    /\ modal[Len(modal)] > 0
    /\ LET t == modal[Len(modal)]
           d == threads[t].dlg
       IN
       /\ modal' = SubSeq(modal, 1, Len(modal) - 1)
       /\ IF threads[t].gone
          THEN /\ threads' = [threads EXCEPT ![t] = NoThread]
               /\ UNCHANGED << active_dialog, dialogs >>
          ELSE /\ active_dialog' = SlotAfterClose(d)
               /\ dialogs' = [dialogs EXCEPT ![d] = NoDialog]
               /\ threads' = [Orphaned(threads, d) EXCEPT ![t] = NoThread]
    /\ UNCHANGED << running, now, config, monitoring, observer, handler,
                    retired,
                    afterQueue, root_visible, tray_icon, accepted >>

\* ------------------------------------------------- manual tray actions
\* force_push, git_pull, git_fetch, the first test of each:
\* "not self.config.get('repo_path')".
NoRepositoryConfigured == DictGet(config, "repo_path", <<>>) = <<>>

\* What a manual action tests of the dialog slot and of the running threads
\* before it starts its own thread: force_push, git_pull and git_fetch test
\* nothing.
ManualActionRefused == FALSE

\* force_push, git_pull and git_fetch, called by the tray thread.
manual_action(kind) ==
    /\ running
    /\ tray_icon # 0
    /\ IF NoRepositoryConfigured \/ ManualActionRefused
       THEN UNCHANGED threads
       ELSE /\ \E t \in 1..MaxThreads : threads[t].kind = "none"
            /\ threads' = [threads EXCEPT ![FreeThreadSlot] = NewThread(kind, 0)]
    /\ UNCHANGED << running, now, config, monitoring, observer, handler,
                    retired,
                    afterQueue, active_dialog, dialogs, modal, root_visible,
                    tray_icon, accepted >>

force_push == manual_action("force")

git_pull == manual_action("pull")

git_fetch == manual_action("fetch")

\* The root.after(0, show_tray_message) callback of a manual action's thread.
tray_result(t) ==
    /\ running
    /\ threads[t].kind \in {"force", "pull", "fetch"}
    /\ threads[t].pc = "posted"
    /\ threads' = [threads EXCEPT ![t] = NoThread]
    /\ UNCHANGED << running, now, config, monitoring, observer, handler,
                    retired,
                    afterQueue, active_dialog, dialogs, modal, root_visible,
                    tray_icon, accepted >>

\* The threads quit_app is called by: the Tk main loop (on_closing) and the
\* pystray thread (Exit in the tray menu).
QuitCallers == { "control", "tray" }

\* quit_app: Exit in the tray menu, or on_closing confirmed on the main window.
\* observer.join() raises RuntimeError for an Observer that never started, and
\* quit_app ends there.  Past it the main loop ends and the process exits: its
\* windows, pending callbacks and daemon threads go with it.
quit_app(caller) ==
    /\ running
    /\ IF caller = "tray" THEN tray_icon # 0 ELSE root_visible /\ modal = <<>>
    /\ active_dialog' = 0
    /\ IF handler.state = "created"
       THEN /\ dialogs' = [d \in 1..MaxDialogs |->
                  IF d = active_dialog THEN NoDialog ELSE dialogs[d]]
            /\ threads' = Orphaned(threads, active_dialog)
            /\ UNCHANGED << running, handler, tray_icon, afterQueue, modal >>
       ELSE /\ dialogs' = [d \in 1..MaxDialogs |-> NoDialog]
            /\ threads' = [t \in 1..MaxThreads |-> NoThread]
            /\ handler' = [handler EXCEPT
                   !.state = IF @ = "running" THEN "stopped" ELSE @]
            /\ tray_icon' = 0
            /\ running' = FALSE
            /\ afterQueue' = <<>>
            /\ modal' = <<>>
    /\ UNCHANGED << now, config, monitoring, observer, retired, root_visible,
                    accepted >>

\* ------------------------------------------------------- specifications
\* The whole program: every thread and every callback, with the clock, for
\* one repository and with git installed.
Next ==
    \/ Tick
    \/ \E i \in 1..MaxObservers, path \in EventPaths, is_directory \in BOOLEAN :
           on_modified(i, path, is_directory)
    \/ \E form \in OneTargetForms, fs \in Filesystems, startRaises \in BOOLEAN :
           start_monitoring(form, fs, startRaises)
    \/ \E ctorRaises \in BOOLEAN, fallbackRaises \in BOOLEAN :
           show_commit_dialog(ctorRaises, fallbackRaises)
    \/ minimize_to_tray
    \/ show_main_window
    \/ \E d \in 1..MaxDialogs, typed \in Messages : push_changes(d, typed)
    \/ error_dismissed
    \/ \E d \in 1..MaxDialogs : cancel(d)
    \/ \E t \in 1..MaxThreads, rc \in GitRcs : git_command(t, rc)
    \/ \E t \in 1..MaxThreads : show_result(t)
    \/ result_dismissed
    \/ force_push
    \/ git_pull
    \/ git_fetch
    \/ \E t \in 1..MaxThreads : tray_result(t)
    \/ \E caller \in QuitCallers : quit_app(caller)

Spec == Init /\ [][Next]_vars

\* The change watcher and debouncer with an operator who never approves: the
\* actions that write what on_modified reads, over more paths.
NextDebouncer ==
    \/ Tick
    \/ \E i \in 1..MaxObservers, path \in DebouncePaths, is_directory \in BOOLEAN :
           on_modified(i, path, is_directory)
    \/ \E form \in Forms, fs \in Filesystems, startRaises \in BOOLEAN :
           start_monitoring(form, fs, startRaises)
    \/ \E ctorRaises \in BOOLEAN, fallbackRaises \in BOOLEAN :
           show_commit_dialog(ctorRaises, fallbackRaises)
    \/ \E d \in 1..MaxDialogs : cancel(d)
    \/ \E caller \in QuitCallers : quit_app(caller)

SpecDebouncer == Init /\ [][NextDebouncer]_vars

\* The automatic path with the main window showing: change events, prompts,
\* approvals and their syncs, with the clock and without the tray.
NextAuto ==
    \/ Tick
    \/ \E i \in 1..MaxObservers, path \in EventPaths, is_directory \in BOOLEAN :
           on_modified(i, path, is_directory)
    \/ \E form \in Forms, fs \in Filesystems, startRaises \in BOOLEAN :
           start_monitoring(form, fs, startRaises)
    \/ \E ctorRaises \in BOOLEAN, fallbackRaises \in BOOLEAN :
           show_commit_dialog(ctorRaises, fallbackRaises)
    \/ \E d \in 1..MaxDialogs, typed \in Messages : push_changes(d, typed)
    \/ error_dismissed
    \/ \E d \in 1..MaxDialogs : cancel(d)
    \/ \E t \in 1..MaxThreads, rc \in SequenceRcs \cup SingleRcs :
           git_command(t, rc)
    \/ \E t \in 1..MaxThreads : show_result(t)
    \/ result_dismissed
    \/ \E caller \in QuitCallers : quit_app(caller)

SpecAuto == Init /\ [][NextAuto]_vars

\* The program at one instant of the clock, with the scheduling the runtime
\* gives: a started worker thread runs on, so its present command comes to
\* one of its ends; the Tk main loop runs every callback posted to it; the
\* operator dismisses a message box that is showing.
NextSync ==
    \/ \E i \in 1..MaxObservers, path \in EventPaths, is_directory \in BOOLEAN :
           on_modified(i, path, is_directory)
    \/ \E form \in Forms, fs \in Filesystems, startRaises \in BOOLEAN :
           start_monitoring(form, fs, startRaises)
    \/ \E ctorRaises \in BOOLEAN, fallbackRaises \in BOOLEAN :
           show_commit_dialog(ctorRaises, fallbackRaises)
    \/ minimize_to_tray
    \/ \E d \in 1..MaxDialogs, typed \in Messages : push_changes(d, typed)
    \/ error_dismissed
    \/ \E d \in 1..MaxDialogs : cancel(d)
    \/ \E t \in 1..MaxThreads, rc \in SequenceRcs \cup SingleRcs :
           git_command(t, rc)
    \/ \E t \in 1..MaxThreads : show_result(t)
    \/ result_dismissed
    \/ force_push
    \/ git_pull
    \/ git_fetch
    \/ \E t \in 1..MaxThreads : tray_result(t)
    \/ \E caller \in QuitCallers : quit_app(caller)

SpecSync ==
    /\ Init
    /\ [][NextSync]_vars
    /\ \A t \in 1..MaxThreads :
          /\ WF_vars(\E rc \in SequenceRcs \cup SingleRcs : git_command(t, rc))
          /\ WF_vars(show_result(t))
          /\ WF_vars(tray_result(t))
    /\ WF_vars(result_dismissed)
    /\ WF_vars(error_dismissed)

\* ---------------------------------------------------------------- claims
\* The dialog slots that hold a window.
OpenDialogs == { d \in 1..MaxDialogs : DialogExists(d) }

\* The worker threads that have been started and whose commands have not
\* all returned.
ExecutingThreads == { t \in 1..MaxThreads : threads[t].pc \in {"run", "hung"} }

\* The coordinator is not Idle: a confirmation is open or a sync is executing.
NotIdle == OpenDialogs # {} \/ ExecutingThreads # {}

C2_MutualExclusion == Cardinality(ExecutingThreads) <= 1

\* C3: a manual action invoked while the coordinator is not Idle starts no
\* command: no step taken with a confirmation open or a sync executing starts
\* a force-push, pull or fetch thread.
C3_ManualRefusedWhenBusy ==
    [][NotIdle =>
         \A t \in 1..MaxThreads :
            threads[t].kind = "none" =>
               threads'[t].kind \notin {"force", "pull", "fetch"}]_vars

\* The event is due: the path has no ledger entry, or the last accepted event
\* on it is at least the cooldown old.
Due(path) ==
    \/ path \notin DOMAIN handler.ledger
    \/ now - handler.ledger[path] >= Cooldown

\* What accepting an event on path does: the ledger entry of path becomes now,
\* every other entry stays, and one callback for path is scheduled.
AcceptEffect(path) ==
    /\ DOMAIN handler'.ledger = DOMAIN handler.ledger \cup {path}
    /\ handler'.ledger[path] = now
    /\ \A q \in DOMAIN handler.ledger \ {path} :
          handler'.ledger[q] = handler.ledger[q]
    /\ afterQueue' = Append(afterQueue, path)

\* C4: whenever a modification event on a .lpz file can be delivered, it is
\* accepted iff it is due; accepted, it sets the entry of its path to now and
\* schedules one callback; rejected, it changes neither ledger nor queue.
C4_DebouncerAccept ==
    \A path \in { q \in DebouncePaths : EndsWith(q, LpzSuffix) } :
       ENABLED on_modified(observer, path, FALSE) =>
          IF Due(path)
          THEN /\ ENABLED (on_modified(observer, path, FALSE) /\ AcceptEffect(path))
               /\ ~ENABLED (on_modified(observer, path, FALSE) /\ ~AcceptEffect(path))
          ELSE ~ENABLED (on_modified(observer, path, FALSE)
                         /\ << handler, afterQueue >>' # << handler, afterQueue >>)

\* An event was accepted exactly one cooldown after the entry it replaced,
\* and an event on another path is not due.
C4_Witness ==
    /\ LpzA \in DOMAIN handler.ledger
    /\ LpzB \in DOMAIN handler.ledger
    /\ handler.ledger[LpzA] = Cooldown
    /\ [h |-> observer, path |-> LpzA, at |-> 0] \in accepted
    /\ ~Due(LpzB)

\* The signals the debouncer of Observer h let through for path.
AcceptedFor(h, path) == { a \in accepted : a.h = h /\ a.path = path }

\* C5: any two signals one debouncer accepted for the same path are at least
\* the cooldown apart, and the ledger entry of a path is the time of the last
\* signal accepted for that path, whatever happened on other paths.
C5_OneSignalPerWindow ==
    /\ \A a \in accepted, b \in accepted :
          (a.h = b.h /\ a.path = b.path /\ a.at < b.at) =>
              b.at - a.at >= Cooldown
    /\ handler.state = "running" =>
          /\ DOMAIN handler.ledger =
                 { a.path : a \in { b \in accepted : b.h = observer } }
          /\ \A path \in DOMAIN handler.ledger :
                /\ AcceptedFor(observer, path) # {}
                /\ \A a \in AcceptedFor(observer, path) :
                      a.at <= handler.ledger[path]
                /\ \E a \in AcceptedFor(observer, path) :
                      a.at = handler.ledger[path]

\* Two signals were accepted for one path, and one for another path between.
C5_Witness ==
    \E a \in accepted, b \in accepted, c \in accepted :
       /\ a.h = b.h /\ b.h = c.h
       /\ a.path = b.path /\ c.path # a.path
       /\ a.at < c.at /\ c.at < b.at

\* C6: a change callback that runs while the coordinator is not Idle opens
\* no prompt: no step taken with a confirmation open or a sync executing
\* puts a window into a free dialog slot.
C6_DroppedWhileBusy ==
    [][NotIdle =>
         \A d \in 1..MaxDialogs :
            dialogs[d].state = "free" => dialogs'[d].state = "free"]_vars

\* C7: the commands a push sequence has issued are a prefix of add, commit,
\* push; every command but the last issued one succeeded; the sequence goes
\* on exactly while commands succeed and are left; it returns success iff all
\* three succeeded.
C7_PushSequenceOrder ==
    \A t \in 1..MaxThreads :
       threads[t].kind \in {"auto", "force"} =>
          LET th == threads[t]
              n == Len(th.issued)
          IN /\ n <= 3
             /\ th.issued = SubSeq(<< "add", "commit", "push" >>, 1, n)
             /\ Len(th.rcs) = n
             /\ \A i \in 1..(n - 1) : th.rcs[i] = "ok"
             /\ th.pc = "run" => n < 3 /\ (n > 0 => th.rcs[n] = "ok")
             /\ th.pc # "run" =>
                   /\ n > 0
                   /\ n < 3 => th.rcs[n] # "ok"
                   /\ th.success <=> (n = 3 /\ th.rcs[3] = "ok")

\* A sequence whose add and commit succeeded and whose push failed has
\* returned failure.
C7_Witness ==
    \E t \in 1..MaxThreads :
       /\ threads[t].kind = "auto"
       /\ threads[t].pc = "posted"
       /\ threads[t].rcs = << "ok", "ok", "nonzero" >>
       /\ ~threads[t].success

\* C8: each PendingAction starts at most one push sequence: an approve on a
\* dialog whose sync is executing starts nothing.
C8_OneSequencePerDialog ==
    \A d \in 1..MaxDialogs :
       Cardinality({ t \in 1..MaxThreads :
                       threads[t].kind = "auto" /\ threads[t].dlg = d }) <= 1

\* C9: while a push sequence is executing, the dialog that started it still
\* exists and still holds the slot: a cancel does not release it.
C9_SlotHeldWhileExecuting ==
    \A t \in 1..MaxThreads :
       (threads[t].kind = "auto" /\ threads[t].pc = "run") =>
           /\ ~threads[t].gone
           /\ active_dialog = threads[t].dlg

\* C10: the result callback of every push sequence started by an approval
\* reports the outcome: the step that takes a posted result opens its
\* message box.
C10_EverySequenceReported ==
    [][\A t \in 1..MaxThreads :
          ( /\ threads[t].kind = "auto"
            /\ threads[t].pc = "posted"
            /\ threads'[t].pc # "posted"
            /\ running' ) =>
              /\ threads'[t].pc = "msgbox"
              /\ threads'[t].report \in {"success", "failed"}]_vars

\* The text is empty once its whitespace is trimmed.
Blank(typed) == \A i \in 1..Len(typed) : typed[i] = " "

\* What a rejected approval of dialog d does: the error box opens, no thread
\* is started, and the dialog and the slot are as they were, the dialog open
\* and its text still editable.
RejectedEffect(d) ==
    /\ modal' = Append(modal, 0 - d)
    /\ threads' = threads
    /\ dialogs' = dialogs
    /\ active_dialog' = active_dialog
    /\ dialogs'[d].state = "open"
    /\ ~dialogs'[d].disabled

\* C11: an approval whose message is blank can only end as a rejected
\* approval: error reported, no command, dialog open; and once the error box
\* is dismissed the dialog's buttons can be used again.
C11_EmptyMessageRejected ==
    \A d \in 1..MaxDialogs :
       /\ \A typed \in { m \in Messages : Blank(m) } :
             ENABLED push_changes(d, typed) =>
                ~ENABLED (push_changes(d, typed) /\ ~RejectedEffect(d))
       /\ (running /\ modal = << 0 - d >> /\ dialogs[d].state = "open") =>
             ENABLED (error_dismissed /\ DialogUsable(d)')

\* The error box of a blank approval is showing over its open dialog.
C11_Witness ==
    \E d \in 1..MaxDialogs :
       /\ modal = << 0 - d >>
       /\ dialogs[d].state = "open"
       /\ ~dialogs[d].disabled
       /\ \A t \in 1..MaxThreads : threads[t].dlg # d

\* Worker thread t is executing: started, and its commands have not all
\* returned.
Executing(t) == threads[t].pc \in {"run", "hung"}

\* C12: a sync that is executing always comes to an end, however its
\* commands end and even when one of them never returns.
C12_ExecutingEnds ==
    \A t \in 1..MaxThreads : Executing(t) ~> ~Executing(t)

\* C13: a pull or fetch that has ended reports "timed out" exactly when its
\* command ran into the timeout and "failed" exactly when it exited nonzero;
\* it never hangs, and once it has ended it is no longer executing and its
\* report can be shown, whatever the other of the two is doing.
C13_TimeoutDistinct ==
    \A t \in 1..MaxThreads :
       threads[t].kind \in {"pull", "fetch"} =>
          /\ threads[t].pc \in {"run", "posted"}
          /\ threads[t].pc = "posted" =>
                /\ threads[t].issued = << threads[t].kind >>
                /\ Len(threads[t].rcs) = 1
                /\ threads[t].report = "timed_out" <=> threads[t].rcs[1] = "timeout"
                /\ threads[t].report = "failed" <=> threads[t].rcs[1] = "nonzero"
                /\ ~Executing(t)
                /\ ENABLED tray_result(t)

\* A pull has timed out and a fetch has exited nonzero, both waiting to be
\* reported.
C13_Witness ==
    \E t \in 1..MaxThreads, u \in 1..MaxThreads :
       /\ threads[t].kind = "pull" /\ threads[t].report = "timed_out"
       /\ threads[u].kind = "fetch" /\ threads[u].report = "failed"

\* A step of the watcher thread, of a worker thread or of the tray thread.
OffControlStep ==
    \/ \E i \in 1..MaxObservers, path \in EventPaths, is_directory \in BOOLEAN :
           on_modified(i, path, is_directory)
    \/ \E t \in 1..MaxThreads, rc \in SequenceRcs \cup SingleRcs :
           git_command(t, rc)
    \/ show_main_window
    \/ force_push
    \/ git_pull
    \/ git_fetch
    \/ quit_app("tray")

\* C14: no step of the watcher thread, of a worker thread or of the tray
\* thread changes the dialog slot or a dialog window: only callbacks of the
\* control thread do.
C14_ControlThreadOwnsSlot ==
    [][OffControlStep => UNCHANGED << active_dialog, dialogs >>]_vars

\* C15, the prompt: a window is put into a free slot only by a step that
\* takes one scheduled callback, and it is the prompt for that callback's file.
PromptPerCallback ==
    \A d \in 1..MaxDialogs :
       (dialogs[d].state = "free" /\ dialogs'[d].state # "free") =>
           /\ afterQueue # <<>>
           /\ afterQueue' = Tail(afterQueue)
           /\ dialogs'[d] = NewDialog(Head(afterQueue))

\* C15, the events: a callback is scheduled only for an event that is due,
\* one callback for it, and the event becomes the last accepted one of its
\* path: an edit inside the cooldown schedules nothing, and an edit at least
\* the cooldown after the last accepted one can be delivered and is accepted.
CallbackPerDueEvent ==
    /\ afterQueue' # afterQueue /\ Len(afterQueue') >= Len(afterQueue) =>
          \E path \in EventPaths :
             /\ Due(path)
             /\ afterQueue' = Append(afterQueue, path)
             /\ path \in DOMAIN handler'.ledger
             /\ handler'.ledger[path] = now
    /\ \A path \in EventPaths :
          on_modified(observer, path, FALSE) =>
             ((Due(path) /\ EndsWith(path, LpzSuffix))
                 <=> afterQueue' = Append(afterQueue, path))

\* C15, the sync: the result box of an approved dialog reports success
\* exactly when add, commit and push all exited 0, and dismissing it leaves
\* the dialog closed and the slot free.
SuccessReportedThenIdle ==
    \A t \in 1..MaxThreads :
       /\ (threads[t].kind = "auto" /\ threads[t].pc = "posted"
             /\ threads'[t].pc = "msgbox") =>
               (threads'[t].report = "success"
                   <=> threads[t].rcs = << "ok", "ok", "ok" >>)
       /\ (threads[t].pc = "msgbox" /\ ~threads[t].gone
             /\ threads'[t].pc # "msgbox" /\ running') =>
               /\ dialogs'[threads[t].dlg].state = "free"
               /\ active_dialog' # threads[t].dlg

\* C15, the new prompt: a scheduled callback that finds no dialog open can
\* open the prompt for its file.
PromptWhenIdle ==
    (running /\ afterQueue # <<>> /\ ~DialogAlreadyOpen) =>
        ENABLED ( /\ show_commit_dialog(FALSE, FALSE)
                  /\ active_dialog' # 0
                  /\ dialogs'[active_dialog'] = NewDialog(Head(afterQueue)) )

\* C15: in a run of the program every prompt answers one accepted event,
\* events are accepted one per cooldown window of their path, an accepted
\* event's callback opens a prompt when none is open, and an approved sync
\* whose three commands exit 0 reports success and frees the slot.
C15_EndToEnd ==
    /\ []PromptWhenIdle
    /\ [][PromptPerCallback /\ CallbackPerDueEvent /\ SuccessReportedThenIdle]_vars

\* The scenario after its first round: the file was accepted at time 0, its
\* prompt was approved, the three commands exited 0 and success is showing;
\* the clock is inside the cooldown, where a further edit is not due.
C15_Witness ==
    \E t \in 1..MaxThreads :
       /\ threads[t].kind = "auto"
       /\ threads[t].pc = "msgbox"
       /\ threads[t].report = "success"
       /\ ~threads[t].gone
       /\ dialogs[threads[t].dlg].file = LpzA
       /\ accepted = {[h |-> observer, path |-> LpzA, at |-> 0]}
       /\ now \in 1..(Cooldown - 1)
       /\ ENABLED on_modified(observer, LpzA, FALSE)
       /\ ~Due(LpzA)

\* The form or the filesystem is not fit for monitoring: a path is blank or
\* missing, or the repository path has no repository marker.
InvalidStart(form, fs) ==
    \/ Blank(form.watch)
    \/ Blank(form.repo)
    \/ ~fs.watch
    \/ ~fs.repo
    \/ ~fs.git

\* C16: Start Monitoring with a blank or missing watch or repository path, or
\* with a repository path that holds no repository, is answered with an error
\* message and can change nothing: configuration, observer, handler,
\* monitoring flag, dialog slot, dialogs and all the rest stay as they are.
C16_StartValidationFrame ==
    \A form \in Forms, fs \in Filesystems, startRaises \in BOOLEAN :
       InvalidStart(form, fs) =>
          /\ StartValidation(Strip(form.watch), Strip(form.repo),
                             fs.watch, fs.repo, fs.git) # ""
          /\ ~ENABLED (start_monitoring(form, fs, startRaises) /\ vars' # vars)

\* Start Monitoring can be clicked while monitoring is on and a prompt is
\* open, with a form that is not valid and with one that is.
C16_Witness ==
    /\ monitoring
    /\ handler.state = "running"
    /\ active_dialog # 0
    /\ dialogs[active_dialog].state = "open"
    /\ \E form \in Forms, fs \in Filesystems :
          /\ InvalidStart(form, fs)
          /\ ENABLED start_monitoring(form, fs, FALSE)
    /\ \E form \in Forms, fs \in Filesystems :
          /\ ~InvalidStart(form, fs)
          /\ ENABLED (start_monitoring(form, fs, FALSE) /\ config' # config)

\* The target a sync started now would run against: the repository path, the
\* remote and the branch as force_push and push_changes read them.
WatchTarget ==
    [repoPath |-> DictGet(config, "repo_path", <<>>),
     remote |-> DictGet(config, "default_remote", "origin"),
     branch |-> DictGet(config, "default_branch", "main")]

\* C17: the target is not replaced under an action: no step taken while a
\* prompt is pending or a sync is executing changes the repository path, the
\* remote or the branch.
C17_TargetFixedWhilePending ==
    [][NotIdle => WatchTarget' = WatchTarget]_vars

\* C18: a ledger entry, once made, stays through every step of the program,
\* changed only to a later time: the debouncer in use after any step still
\* knows every path accepted before it.
C18_LedgerNeverExpires ==
    [][\A path \in DOMAIN handler.ledger :
          /\ path \in DOMAIN handler'.ledger
          /\ handler'.ledger[path] >= handler.ledger[path]]_vars

\* The name ends with the suffix: it is some text followed by ".lpz".
HasLpzSuffix(path) ==
    \E k \in 0..Len(path) :
       /\ Len(path) - k = 4
       /\ path[k + 1] = "." /\ path[k + 2] = "l"
       /\ path[k + 3] = "p" /\ path[k + 4] = "z"

\* C19: in every state, an event on a directory or on a path that does not
\* end with .lpz can change neither the ledger nor the scheduled callbacks
\* nor anything else; an event on a file that ends with .lpz and is due can.
C19_OnlyLpzFilesReachDebouncer ==
    \A path \in DebouncePaths, is_directory \in BOOLEAN :
       ENABLED on_modified(observer, path, is_directory) =>
          IF is_directory \/ ~HasLpzSuffix(path)
          THEN ~ENABLED (on_modified(observer, path, is_directory) /\ vars' # vars)
          ELSE Due(path) =>
                  ENABLED (on_modified(observer, path, is_directory) /\ AcceptEffect(path))

\* Events can be delivered while a.lpz is due and another path has an entry:
\* only the filter stands between a directory event on a.lpz and the ledger.
C19_Witness ==
    /\ ENABLED on_modified(observer, LpzA, TRUE)
    /\ ENABLED on_modified(observer, LpzBak, FALSE)
    /\ Due(LpzA)
    /\ LpzB \in DOMAIN handler.ledger

\* C20, the event: with a dialog open, a due event on a .lpz file is accepted
\* all the same: its ledger entry is set and its callback scheduled.
AcceptedWhileDialogOpen ==
    \A path \in { q \in DebouncePaths : HasLpzSuffix(q) } :
       (DialogAlreadyOpen /\ Due(path) /\ ENABLED on_modified(observer, path, FALSE)) =>
           /\ ENABLED (on_modified(observer, path, FALSE) /\ AcceptEffect(path))
           /\ ~ENABLED (on_modified(observer, path, FALSE) /\ ~AcceptEffect(path))

\* C20, the drop: the callback that finds a dialog open opens nothing and
\* leaves the ledger as it is.
DropKeepsLedger ==
    (DialogAlreadyOpen /\ \E ctorRaises \in BOOLEAN, fallbackRaises \in BOOLEAN :
                             show_commit_dialog(ctorRaises, fallbackRaises)) =>
        /\ handler' = handler
        /\ OpenDialogs' = OpenDialogs
        /\ active_dialog' = active_dialog

\* C20, the re-save: whatever the coordinator does in between, an event
\* inside the cooldown of its path's entry schedules nothing.
NoPromptInsideCooldown ==
    \A path \in DebouncePaths :
       (path \in DOMAIN handler.ledger
          /\ now - handler.ledger[path] < Cooldown) =>
              ~ENABLED (on_modified(observer, path, FALSE) /\ afterQueue' # afterQueue)

\* C20: the ledger is written for every event that passes the debounce test,
\* dialog open or not; dropping the event's callback does not take the entry
\* back; so a re-save inside the cooldown schedules no prompt.
C20_LedgerBeforeSingleFlight ==
    /\ [](AcceptedWhileDialogOpen /\ NoPromptInsideCooldown)
    /\ [][DropKeepsLedger]_vars

\* The prompt for a.lpz is open and the callback of b.lpz, accepted while it
\* was open, has been dropped: no callback is waiting, b.lpz has its entry,
\* and b.lpz can be saved again inside its cooldown.
C20_Witness ==
    \E d \in 1..MaxDialogs :
       /\ dialogs[d].state = "open"
       /\ dialogs[d].file = LpzA
       /\ dialogs[d].ignored
       /\ accepted = {[h |-> observer, path |-> LpzA, at |-> 0],
                      [h |-> observer, path |-> LpzB, at |-> 1]}
       /\ handler.ledger = [x \in {LpzA, LpzB} |-> IF x = LpzA THEN 0 ELSE 1]
       /\ afterQueue = <<>>
       /\ now = 2
       /\ ENABLED on_modified(observer, LpzB, FALSE)

\* C21, the signal: the signals accepted grow one at a time, each with one
\* callback for its path put at the end of the pending callbacks, and
\* callbacks are put there by nothing else.
OneCallbackPerSignal ==
    /\ (accepted' # accepted /\ accepted \subseteq accepted') =>
          \E path \in DebouncePaths :
             /\ accepted' = accepted \cup {[h |-> observer, path |-> path, at |-> now]}
             /\ afterQueue' = Append(afterQueue, path)
    /\ Len(afterQueue') > Len(afterQueue) =>
          /\ Len(afterQueue') = Len(afterQueue) + 1
          /\ Cardinality(accepted') = Cardinality(accepted) + 1

\* C21, the callback: a callback that runs is taken from the pending ones and
\* tests the slot as it is then; with a dialog open it opens nothing, without
\* one it opens the one prompt for its file, or none when the window cannot
\* be made.
OnePromptOrDropPerCallback ==
    (\E ctorRaises \in BOOLEAN, fallbackRaises \in BOOLEAN :
        show_commit_dialog(ctorRaises, fallbackRaises)) =>
        /\ afterQueue' = Tail(afterQueue)
        /\ IF DialogAlreadyOpen
           THEN /\ OpenDialogs' = OpenDialogs
                /\ active_dialog' = active_dialog
           ELSE \/ /\ OpenDialogs' = OpenDialogs
                   /\ active_dialog' = 0
                \/ /\ Cardinality(OpenDialogs' \ OpenDialogs) = 1
                   /\ OpenDialogs' \ OpenDialogs = {active_dialog'}
                   /\ dialogs'[active_dialog'] = NewDialog(Head(afterQueue))

Delivering == { i \in 1..MaxObservers : HandlerOf(i).state = "running" }

\* C22, the restart: a start that gets as far as a new Observer has stopped
\* the one held before, and the new one comes with a new handler whose
\* ledger is empty; no Observer but the new one delivers after it.
RestartStopsPrevious ==
    observer' # observer =>
        /\ observer' = observer + 1
        /\ observer # 0 => retired'[observer].state = "stopped"
        /\ handler'.state \in {"created", "running"}
        /\ handler'.ledger = EmptyDict
        /\ Delivering' \subseteq {observer'}

\* C22, the events: a callback is scheduled only for a signal of the Observer
\* the application holds, and only while that Observer is running.
OnlyHeldObserverSchedules ==
    Len(afterQueue') > Len(afterQueue) =>
        /\ handler.state = "running"
        /\ \E a \in accepted' \ accepted : a.h = observer

\* C22, the stopped ones: an Observer that has been stopped delivers nothing.
StoppedObserverSilent ==
    \A i \in 1..MaxObservers, path \in DebouncePaths :
       HandlerOf(i).state = "stopped" => ~ENABLED on_modified(i, path, FALSE)

\* C22: whatever the sequence of starts, at most one Observer delivers events;
\* every start stops the Observer held before and then creates a new one with
\* a new handler, and a stopped Observer delivers no event, so none of its
\* events schedules a prompt.
C22_OneObserverDelivers ==
    /\ [](Cardinality(Delivering) <= 1 /\ StoppedObserverSilent)
    /\ [][RestartStopsPrevious /\ OnlyHeldObserverSchedules]_vars

\* Monitoring was started twice: the first Observer saw a.lpz change, whose
\* prompt is open, and is stopped; the second is running and has delivered
\* a change of b.lpz.
C22_Witness ==
    /\ observer = 2
    /\ retired[1].state = "stopped"
    /\ Delivering = {2}
    /\ accepted = {[h |-> 2, path |-> LpzB, at |-> now]}
    /\ \E d \in 1..MaxDialogs :
          dialogs[d].state = "open" /\ dialogs[d].file = LpzA

\* C23, the icon: an Icon is created only with none held and monitoring
\* started, and the one held is let go of only as the application ends.
IconCreatedOnce ==
    tray_icon' # tray_icon =>
        \/ /\ tray_icon = 0
           /\ tray_icon' = 1
           /\ monitoring
        \/ /\ tray_icon' = 0
           /\ ~running'

\* C23: the tray icon exists only once monitoring has been started, monitoring
\* started means a non-empty repo_path in the configuration, so no force-push,
\* pull or fetch of the tray menu finds no repository configured; and no
\* second tray icon is ever created.
C23_TrayImpliesRepository ==
    /\ [](/\ tray_icon # 0 => monitoring
          /\ monitoring => ~NoRepositoryConfigured
          /\ \A kind \in {"force", "pull", "fetch"} :
                ~ENABLED (manual_action(kind) /\ NoRepositoryConfigured)
          /\ tray_icon <= 1)
    /\ [][IconCreatedOnce]_vars

\* The icon exists, the main window has been brought back with Open Config,
\* and a pull started from the tray menu is under way on the repository.
C23_Witness ==
    /\ tray_icon = 1
    /\ root_visible
    /\ monitoring
    /\ ~NoRepositoryConfigured
    /\ \E t \in 1..MaxThreads :
          threads[t].kind = "pull" /\ threads[t].pc = "run"

====
